---- MODULE Spec2Model ----
(***************************************************************************)
(* scripts/convert_pdf.py: one invocation of the converter after another   *)
(* against the same working directory.  The state is the filesystem the    *)
(* script touches (Web/slides, Web/meta.json), the position of the running *)
(* process, its locals and the image buffers its locals keep alive.        *)
(* Filesystem calls on the output location are taken to succeed; the       *)
(* failures modelled are those the input decides: a wrong command line, a  *)
(* missing source, a probe without a usable page count, a page the         *)
(* renderer rejects.                                                       *)
(***************************************************************************)
EXTENDS Integers, Sequences, FiniteSets, TLC

\* ---------------------------------------------------------------- bounds
MaxPages == 3      \* largest page count of a source document
MaxClock == 1      \* seconds that may pass while the runs are observed

\* ------------------------------------------------------- program constants
OUTPUT_DIR == "Web/slides"
META_PATH == "Web/meta.json"
META_VERSION == 1
SLIDE_PAD == 3

\* ------------------------------------------------------------ text helpers
DigitChar(d) ==
    CASE d = 0 -> "0" [] d = 1 -> "1" [] d = 2 -> "2" [] d = 3 -> "3"
      [] d = 4 -> "4" [] d = 5 -> "5" [] d = 6 -> "6" [] d = 7 -> "7"
      [] d = 8 -> "8" [] d = 9 -> "9"

DigitValue(c) ==
    CASE c = "0" -> 0 [] c = "1" -> 1 [] c = "2" -> 2 [] c = "3" -> 3
      [] c = "4" -> 4 [] c = "5" -> 5 [] c = "6" -> 6 [] c = "7" -> 7
      [] c = "8" -> 8 [] c = "9" -> 9 [] OTHER -> -1

\* The characters of the decimal text of a natural number, most significant
\* first (what str() and the 'd' format type produce).
RECURSIVE DecimalChars(_)
DecimalChars(n) ==
    IF n < 10 THEN <<DigitChar(n)>>
    ELSE DecimalChars(n \div 10) \o <<DigitChar(n % 10)>>

RECURSIVE Join(_)
Join(chars) ==
    IF chars = << >> THEN "" ELSE chars[1] \o Join(Tail(chars))

\* format(n, "0<width>d"): zeros on the left up to the width, never cut.
RECURSIVE ZeroPad(_, _)
ZeroPad(chars, width) ==
    IF Len(chars) >= width THEN chars ELSE ZeroPad(<<"0">> \o chars, width)

\* ------------------------------------------------------- the outside world
\* Source documents on disk.  A document is its path (directory, base name),
\* its page count, the lines pdfinfo prints for it (key, characters of the
\* value) and the page the renderer rejects (0: none).
GoodDocs ==
    { [path |-> <<"in", Join(<<"deck">> \o DecimalChars(n) \o <<"_">>
                               \o DecimalChars(b) \o <<".pdf">>)>>,
       npages |-> n,
       pdfinfo |-> << <<"Title", <<"d">> >>, <<"Pages", DecimalChars(n)>>,
                      <<"Page size", <<"9">> >> >>,
       bad |-> b] : n \in 0..MaxPages, b \in 0..MaxPages }

CorruptDocs ==
    { [path |-> <<"in", "corrupt.pdf">>, npages |-> 0,
       pdfinfo |-> << >>, bad |-> 0],
      [path |-> <<"in", "odd.pdf">>, npages |-> 1,
       pdfinfo |-> << <<"Pages", <<"x">> >> >>, bad |-> 0] }

Docs == { d \in GoodDocs : d.bad <= d.npages } \cup CorruptDocs

MissingPath == <<"in", "missing.pdf">>
ScriptPath == <<"scripts", "convert_pdf.py">>

Exists(path) == \E d \in Docs : d.path = path
Doc(path) == CHOOSE d \in Docs : d.path = path

\* stdout of `pdfinfo path`: nothing for a path that is no document.
PdfinfoStdout(path) == IF Exists(path) THEN Doc(path).pdfinfo ELSE << >>

\* Command lines: sys.argv with the script's own path first.
Paths == { d.path : d \in Docs } \cup {MissingPath}
CommandLines ==
    {<<ScriptPath>>}
      \cup { <<ScriptPath, p>> : p \in Paths }
      \cup { <<ScriptPath, d.path, MissingPath>> :
                d \in { g \in Docs : g.npages = 1 /\ g.bad = 0 } }

PriorEntries == {"notes.txt", "thumbs"}
Modes == {"RGB", "L"}


\* ------------------------------------------------------------------ state
VARIABLES
    dir,            \* OUTPUT_DIR: whether it exists, and the names in it
    meta,           \* META_PATH: empty when absent, else the one JSON object
    clock,          \* datetime.now(timezone.utc), in seconds
    pc,             \* position of the process ("idle": none started yet)
    exit_code,      \* status of the process that ended last (-1: none, running)
    error,          \* the exception that ended the process ("" when none)
    argv,           \* sys.argv
    pdf_path, pdf_filename, total_pages, page_num, filename,
    pages, page, resized,   \* locals bound to image buffers (<< >>: unbound)
    calls,          \* what this process has called so far, in order
    start,          \* dir and meta as they were when this process started
    last            \* argv and exit status of the process before this one

vars == <<dir, meta, clock, pc, exit_code, error, argv, pdf_path, pdf_filename,
          total_pages, page_num, filename, pages, page, resized, calls, start,
          last>>

AbsentDir == [exists |-> FALSE, entries |-> {}]

Init ==
    /\ dir \in {AbsentDir} \cup { [exists |-> TRUE, entries |-> e] : e \in SUBSET PriorEntries }
    /\ meta = {}
    /\ clock = 0
    /\ pc = "idle"
    /\ exit_code = -1
    /\ error = ""
    /\ argv = << >>
    /\ pdf_path = << >>
    /\ pdf_filename = ""
    /\ total_pages = 0
    /\ page_num = 0
    /\ filename = ""
    /\ pages = << >>
    /\ page = << >>
    /\ resized = << >>
    /\ calls = << >>
    /\ start = [dir |-> AbsentDir, meta |-> {}]
    /\ last = [argv |-> << >>, exit_code |-> -1]

Call(op, arg) == [op |-> op, arg |-> arg]

\* The process ends: sys.exit(code), the end of the script, or an exception
\* nothing catches (status 1).
Exit(code, exc) ==
    /\ pc' = "exited"
    /\ exit_code' = code
    /\ error' = exc

\* ---------------------------------------------------------------- helpers
\* os.path.basename of a path given by its components.
basename(path) == path[Len(path)]

\* int(text.strip()) of the characters after the colon: a failure (ValueError)
\* unless every character is a digit.
ParseInt(chars) ==
    IF chars # << >> /\ \A i \in 1..Len(chars) : DigitValue(chars[i]) >= 0
    THEN [ok |-> TRUE, exc |-> "",
          value |-> LET RECURSIVE Val(_)
                        Val(k) == IF k = 0 THEN 0
                                  ELSE 10 * Val(k - 1) + DigitValue(chars[k])
                    IN Val(Len(chars))]
    ELSE [ok |-> FALSE, exc |-> "ValueError", value |-> 0]

\* get_total_pages: the first line that starts with "Pages:" decides.
RECURSIVE ScanLines(_)
ScanLines(lines) ==
    IF lines = << >> THEN [ok |-> FALSE, exc |-> "RuntimeError", value |-> 0]
    ELSE IF lines[1][1] = "Pages" THEN ParseInt(lines[1][2])
    ELSE ScanLines(Tail(lines))

get_total_pages(path) == ScanLines(PdfinfoStdout(path))

\* The name with the index padded to two digits instead of three.
SlideFilenameTwoDigits(n) ==
    Join(<<"slide_">> \o ZeroPad(DecimalChars(n), SLIDE_PAD - 1) \o <<".jpg">>)

\* f"slide_{page_num:03d}.jpg"
SlideFilename(n) ==
    Join(<<"slide_">> \o ZeroPad(DecimalChars(n), SLIDE_PAD) \o <<".jpg">>)

\* shutil.rmtree(path) and os.makedirs(path) on the output directory.
rmtree(d) == AbsentDir
makedirs(d) == [exists |-> TRUE, entries |-> {}]

\* The image buffers some local still refers to (CPython frees a buffer when
\* the last reference to it goes).
Range(s) == { s[i] : i \in 1..Len(s) }
Live == Range(pages) \cup Range(page) \cup Range(resized)

\* ---------------------------------------------------------------- actions
\* A new process is started with some command line.
Invoke ==
    /\ pc \in {"idle", "exited"}
    /\ \E args \in CommandLines : argv' = args
    /\ last' = [argv |-> argv, exit_code |-> exit_code]
    /\ start' = [dir |-> dir, meta |-> meta]
    /\ pc' = "main"
    /\ exit_code' = -1
    /\ error' = ""
    /\ calls' = << >>
    /\ pdf_path' = << >>
    /\ pdf_filename' = ""
    /\ total_pages' = 0
    /\ page_num' = 0
    /\ filename' = ""
    /\ pages' = << >>
    /\ page' = << >>
    /\ resized' = << >>
    /\ UNCHANGED <<dir, meta, clock>>

\* Time passes.
Tick ==
    /\ clock < MaxClock
    /\ clock' = clock + 1
    /\ UNCHANGED <<dir, meta, pc, exit_code, error, argv, pdf_path, pdf_filename,
                   total_pages, page_num, filename, pages, page, resized, calls,
                   start, last>>

\* The argument check as "too few" only: a third argument gets through.
CheckArgsTooFewOnly ==
    /\ pc = "main"
    /\ IF Len(argv) < 2
       THEN Exit(1, "") /\ UNCHANGED pdf_path
       ELSE /\ pdf_path' = argv[2]
            /\ pc' = "exists"
            /\ UNCHANGED <<exit_code, error>>
    /\ UNCHANGED <<dir, meta, clock, argv, pdf_filename, total_pages, page_num,
                   filename, pages, page, resized, calls, start, last>>

\* if len(sys.argv) != 2: usage, sys.exit(1); else pdf_path = sys.argv[1]
CheckArgs ==
    /\ pc = "main"
    /\ IF Len(argv) # 2
       THEN Exit(1, "") /\ UNCHANGED pdf_path
       ELSE /\ pdf_path' = argv[2]
            /\ pc' = "exists"
            /\ UNCHANGED <<exit_code, error>>
    /\ UNCHANGED <<dir, meta, clock, argv, pdf_filename, total_pages, page_num,
                   filename, pages, page, resized, calls, start, last>>

\* if not os.path.exists(pdf_path): message, sys.exit(1); else the converter
\* is called.
CheckExists ==
    /\ pc = "exists"
    /\ IF ~Exists(pdf_path)
       THEN Exit(1, "") /\ UNCHANGED calls
       ELSE /\ pc' = "probe"
            /\ calls' = Append(calls, Call("convert_pdf_to_slides", basename(pdf_path)))
            /\ UNCHANGED <<exit_code, error>>
    /\ UNCHANGED <<dir, meta, clock, argv, pdf_path, pdf_filename, total_pages,
                   page_num, filename, pages, page, resized, start, last>>

\* The probe answering 0 where it should raise.
ProbeDefaultsToZero ==
    /\ pc = "probe"
    /\ pdf_filename' = basename(pdf_path)
    /\ LET r == get_total_pages(pdf_path) IN
       /\ total_pages' = IF r.ok THEN r.value ELSE 0
       /\ pc' = "reset"
       /\ UNCHANGED <<exit_code, error>>
    /\ calls' = Append(calls, Call("get_total_pages", basename(pdf_path)))
    /\ UNCHANGED <<dir, meta, clock, argv, pdf_path, page_num, filename, pages,
                   page, resized, start, last>>

\* pdf_filename = os.path.basename(pdf_path); total_pages = get_total_pages(..)
Probe ==
    /\ pc = "probe"
    /\ pdf_filename' = basename(pdf_path)
    /\ LET r == get_total_pages(pdf_path) IN
       IF r.ok
       THEN /\ total_pages' = r.value
            /\ pc' = "reset"
            /\ UNCHANGED <<exit_code, error>>
       ELSE Exit(1, r.exc) /\ UNCHANGED total_pages
    /\ calls' = Append(calls, Call("get_total_pages", basename(pdf_path)))
    /\ UNCHANGED <<dir, meta, clock, argv, pdf_path, page_num, filename, pages,
                   page, resized, start, last>>

\* The reset as os.makedirs(OUTPUT_DIR, exist_ok=True) alone: nothing removed.
ResetKeepsContents ==
    /\ pc = "reset"
    /\ calls' = Append(calls, Call("makedirs", OUTPUT_DIR))
    /\ dir' = IF dir.exists THEN dir ELSE makedirs(dir)
    /\ pc' = "for"
    /\ UNCHANGED <<exit_code, error>>
    /\ UNCHANGED <<meta, clock, argv, pdf_path, pdf_filename, total_pages,
                   page_num, filename, pages, page, resized, start, last>>

\* if os.path.exists(OUTPUT_DIR): shutil.rmtree(OUTPUT_DIR)
\* os.makedirs(OUTPUT_DIR)    (FileExistsError if the directory is there)
ResetOutputDir ==
    /\ pc = "reset"
    /\ LET cleared == IF dir.exists THEN rmtree(dir) ELSE dir
           log == IF dir.exists THEN Append(calls, Call("rmtree", OUTPUT_DIR)) ELSE calls
       IN /\ calls' = Append(log, Call("makedirs", OUTPUT_DIR))
          /\ IF cleared.exists
             THEN dir' = cleared /\ Exit(1, "FileExistsError")
             ELSE /\ dir' = makedirs(cleared)
                  /\ pc' = "for"
                  /\ UNCHANGED <<exit_code, error>>
    /\ UNCHANGED <<meta, clock, argv, pdf_path, pdf_filename, total_pages,
                   page_num, filename, pages, page, resized, start, last>>

\* The loop as a do-while: the body runs for page 1 whatever the count.
LoopAtLeastOnce ==
    /\ pc = "for"
    /\ IF page_num + 1 < total_pages + 1 \/ page_num = 0
       THEN page_num' = page_num + 1 /\ pc' = "render"
       ELSE pc' = "meta" /\ UNCHANGED page_num
    /\ UNCHANGED <<dir, meta, clock, exit_code, error, argv, pdf_path,
                   pdf_filename, total_pages, filename, pages, page, resized,
                   calls, start, last>>

\* for page_num in range(1, total_pages + 1): the next index, or the loop ends.
LoopNext ==
    /\ pc = "for"
    /\ IF page_num + 1 < total_pages + 1
       THEN page_num' = page_num + 1 /\ pc' = "render"
       ELSE pc' = "meta" /\ UNCHANGED page_num
    /\ UNCHANGED <<dir, meta, clock, exit_code, error, argv, pdf_path,
                   pdf_filename, total_pages, filename, pages, page, resized,
                   calls, start, last>>

\* The render step with the failure caught and the page skipped.
RenderSkipsBadPage ==
    /\ pc = "render"
    /\ calls' = Append(calls, Call("convert_from_path", Join(DecimalChars(page_num))))
    /\ IF Doc(pdf_path).bad = page_num
       THEN pc' = "for" /\ UNCHANGED pages
       ELSE /\ \E m \in Modes :
                 pages' = <<[page |-> page_num, kind |-> "rendered", mode |-> m]>>
            /\ pc' = "index"
    /\ UNCHANGED <<exit_code, error>>
    /\ UNCHANGED <<dir, meta, clock, argv, pdf_path, pdf_filename, total_pages,
                   page_num, filename, page, resized, start, last>>

\* pages = convert_from_path(pdf_path, dpi=DPI, first_page=page_num,
\*                           last_page=page_num): one image, or the renderer
\* raises on a page it cannot render.
Render ==
    /\ pc = "render"
    /\ calls' = Append(calls, Call("convert_from_path", Join(DecimalChars(page_num))))
    /\ IF Doc(pdf_path).bad = page_num
       THEN Exit(1, "PDFPageError") /\ UNCHANGED pages
       ELSE /\ \E m \in Modes :
                 pages' = <<[page |-> page_num, kind |-> "rendered", mode |-> m]>>
            /\ pc' = "index"
            /\ UNCHANGED <<exit_code, error>>
    /\ UNCHANGED <<dir, meta, clock, argv, pdf_path, pdf_filename, total_pages,
                   page_num, filename, page, resized, start, last>>

\* page = pages[0]
Index ==
    /\ pc = "index"
    /\ page' = <<pages[1]>>
    /\ pc' = "resize"
    /\ UNCHANGED <<dir, meta, clock, exit_code, error, argv, pdf_path,
                   pdf_filename, total_pages, page_num, filename, pages, resized,
                   calls, start, last>>

\* resized = page.resize(...); if resized.mode != "RGB": resized =
\* resized.convert("RGB")
Resize ==
    /\ pc = "resize"
    /\ LET copy == [page |-> page[1].page, kind |-> "resized", mode |-> page[1].mode]
       IN resized' = IF copy.mode # "RGB"
                     THEN <<[copy EXCEPT !.kind = "converted", !.mode = "RGB"]>>
                     ELSE <<copy>>
    /\ pc' = "save"
    /\ UNCHANGED <<dir, meta, clock, exit_code, error, argv, pdf_path,
                   pdf_filename, total_pages, page_num, filename, pages, page,
                   calls, start, last>>

\* The save with the index left out of the name: every page to one file.
SaveOneName ==
    /\ pc = "save"
    /\ filename' = "slide.jpg"
    /\ dir' = [dir EXCEPT !.entries = @ \cup {filename'}]
    /\ calls' = Append(calls, Call("save", filename'))
    /\ pc' = "del"
    /\ UNCHANGED <<meta, clock, exit_code, error, argv, pdf_path, pdf_filename,
                   total_pages, page_num, pages, page, resized, start, last>>

\* filename = f"slide_{page_num:03d}.jpg"; resized.save(OUTPUT_DIR/filename)
Save ==
    /\ pc = "save"
    /\ filename' = SlideFilename(page_num)
    /\ dir' = [dir EXCEPT !.entries = @ \cup {filename'}]
    /\ calls' = Append(calls, Call("save", filename'))
    /\ pc' = "del"
    /\ UNCHANGED <<meta, clock, exit_code, error, argv, pdf_path, pdf_filename,
                   total_pages, page_num, pages, page, resized, start, last>>

\* The iteration without its del statement: the locals stay bound.
DelNothing ==
    /\ pc = "del"
    /\ pc' = "for"
    /\ UNCHANGED <<dir, meta, clock, exit_code, error, argv, pdf_path,
                   pdf_filename, total_pages, page_num, filename, pages, page,
                   resized, calls, start, last>>

\* del pages, page, resized; the size of the file is printed
Del ==
    /\ pc = "del"
    /\ pages' = << >>
    /\ page' = << >>
    /\ resized' = << >>
    /\ pc' = "for"
    /\ UNCHANGED <<dir, meta, clock, exit_code, error, argv, pdf_path,
                   pdf_filename, total_pages, page_num, filename, calls, start,
                   last>>

\* The metadata with the version counted up from the file already there.
WriteMetaBumpsVersion ==
    /\ pc = "meta"
    /\ meta' = {[total_pages |-> total_pages,
                 version |-> IF meta = {} THEN META_VERSION
                             ELSE (CHOOSE m \in meta : TRUE).version + 1,
                 generated_at |-> clock,
                 source_pdf |-> pdf_filename]}
    /\ calls' = Append(calls, Call("dump", META_PATH))
    /\ Exit(0, "")
    /\ UNCHANGED <<dir, clock, argv, pdf_path, pdf_filename, total_pages,
                   page_num, filename, pages, page, resized, start, last>>

\* meta = {...}; json.dump(meta, open(META_PATH, "w")); the script ends.
WriteMeta ==
    /\ pc = "meta"
    /\ meta' = {[total_pages |-> total_pages,
                 version |-> META_VERSION,
                 generated_at |-> clock,
                 source_pdf |-> pdf_filename]}
    /\ calls' = Append(calls, Call("dump", META_PATH))
    /\ Exit(0, "")
    /\ UNCHANGED <<dir, clock, argv, pdf_path, pdf_filename, total_pages,
                   page_num, filename, pages, page, resized, start, last>>

Next ==
    \/ Invoke
    \/ Tick
    \/ CheckArgs
    \/ CheckExists
    \/ Probe
    \/ ResetOutputDir
    \/ LoopNext
    \/ Render
    \/ Index
    \/ Resize
    \/ Save
    \/ Del
    \/ WriteMeta

Spec == Init /\ [][Next]_vars

\* ------------------------------------------------------------- properties
\* The name the layout prescribes for index i (1..999): "slide_", three
\* decimal digits, ".jpg".
ExpectedName(i) ==
    Join(<<"slide_", DigitChar(i \div 100), DigitChar((i \div 10) % 10),
           DigitChar(i % 10), ".jpg">>)

ExpectedSlides(n) == { ExpectedName(i) : i \in 1..n }

\* Slide files in the output directory: everything but the unrelated entries.
SlideCount == Cardinality(dir.entries \ PriorEntries)

Succeeded == pc = "exited" /\ exit_code = 0
InLoop == pc \in {"for", "render", "index", "resize", "save", "del"}

CallsOf(op) == SelectSeq(calls, LAMBDA c : c.op = op)
SavedByRun == { c.arg : c \in Range(CallsOf("save")) }
TouchedOutput ==
    \E c \in Range(calls) : c.op \in {"rmtree", "makedirs", "save", "dump"}

\* The command line names one existing source.
OneSource == Len(argv) = 2 /\ Exists(argv[2])

\* C1: a run that ends without error leaves the output directory with exactly
\* N files, N the page count of the document, named slide_001.jpg ..
\* slide_N.jpg (three-digit index), none missing, none twice.
C1_ExactlyNSlides ==
    Succeeded =>
        /\ total_pages = Doc(pdf_path).npages
        /\ dir.exists
        /\ dir.entries = ExpectedSlides(total_pages)
        /\ Cardinality(dir.entries) = total_pages

C1_Witness ==
    Succeeded /\ total_pages = MaxPages /\ start.dir.entries # {}

\* C2: when a run has written the metadata file, the total_pages in it is the
\* number of slide files in the output directory at that moment.
C2_MetaCountsSlides ==
    (calls # << >> /\ calls[Len(calls)].op = "dump") =>
        /\ meta # {}
        /\ \A m \in meta : m.total_pages = SlideCount

C2_Witness ==
    /\ calls # << >> /\ calls[Len(calls)].op = "dump"
    /\ SlideCount >= 2
    /\ \E m \in start.meta : m.total_pages # SlideCount

\* C3: whenever no run is in progress, a metadata file that is present has a
\* total_pages equal to the number of slide files in the output directory.
C3_MetaMatchesDir ==
    pc = "exited" =>
        \A m \in meta : dir.exists /\ m.total_pages = SlideCount

\* C4: from the reset on, and after a successful run, the output directory
\* holds only files this run has saved: every prior entry is gone before the
\* first slide is written.
C4_OnlyThisRun ==
    (InLoop \/ pc = "meta" \/ Succeeded) =>
        /\ dir.exists
        /\ dir.entries \subseteq SavedByRun

C4_Witness ==
    /\ Succeeded
    /\ total_pages >= 1
    /\ start.dir.entries # {}
    /\ start.dir.entries \cap dir.entries = {}

\* C5: a run whose probe finds no usable page count ends with an error and has
\* touched neither the output directory nor the metadata file.
C5_ProbeFailureLeavesFs ==
    (pc = "exited" /\ OneSource /\ Doc(argv[2]) \in CorruptDocs) =>
        /\ exit_code = 1
        /\ error \in {"RuntimeError", "ValueError"}
        /\ ~TouchedOutput
        /\ dir = start.dir
        /\ meta = start.meta

C5_Witness ==
    /\ pc = "exited" /\ OneSource /\ Doc(argv[2]) \in CorruptDocs
    /\ start.dir.entries # {}
    /\ start.meta # {}

\* C6: a run with a wrong number of arguments or a source that does not exist
\* exits with status 1, has not called the converter and has touched neither
\* the output directory nor the metadata file.
C6_BadInvocationNoEffects ==
    (pc = "exited" /\ ~OneSource) =>
        /\ exit_code = 1
        /\ calls = << >>
        /\ dir = start.dir
        /\ meta = start.meta

C6_Witness ==
    /\ pc = "exited" /\ Len(argv) = 2 /\ ~Exists(argv[2])
    /\ start.dir.entries # {}
    /\ start.meta # {}

\* C7: a successful run that follows a successful run of the same command
\* line ends where it started: the same slide files, and metadata equal but
\* for generated_at; and it has emptied the output directory of the first
\* run's files before writing its own.
SameButTime(a, b) ==
    { [m EXCEPT !.generated_at = 0] : m \in a } = { [m EXCEPT !.generated_at = 0] : m \in b }

Repeated == last.exit_code = 0 /\ last.argv = argv

C8_ZeroPages ==
    (pc = "exited" /\ OneSource /\ Doc(argv[2]) \in GoodDocs
        /\ Doc(argv[2]).npages = 0) =>
        /\ exit_code = 0
        /\ CallsOf("convert_from_path") = << >>
        /\ dir = [exists |-> TRUE, entries |-> {}]
        /\ calls[Len(calls)].op = "dump"
        /\ \E m \in meta : meta = {m} /\ m.total_pages = 0

C8_Witness ==
    /\ pc = "exited" /\ OneSource /\ Doc(argv[2]) \in GoodDocs
    /\ Doc(argv[2]).npages = 0
    /\ start.dir.entries # {}
    /\ \E m \in start.meta : m.total_pages > 0

\* C9: pages are rendered in the order 1, 2, 3, .. with none skipped or
\* repeated; during the loop the directory holds the slides of a prefix of
\* the pages; a run whose page k+1 cannot be rendered ends with an error,
\* slides 1..k on disk and the metadata file as it was; metadata is written
\* only once all N slides are there.
C9_PrefixOrder ==
    /\ \A i \in 1..Len(CallsOf("convert_from_path")) :
           CallsOf("convert_from_path")[i].arg = Join(DecimalChars(i))
    /\ pc \in {"render", "index", "resize", "save"} =>
           dir.entries = ExpectedSlides(page_num - 1)
    /\ pc \in {"for", "del", "meta"} => dir.entries = ExpectedSlides(page_num)
    /\ (pc = "exited" /\ OneSource /\ Doc(argv[2]) \in GoodDocs
           /\ Doc(argv[2]).bad >= 1) =>
           /\ exit_code = 1
           /\ dir.entries = ExpectedSlides(Doc(argv[2]).bad - 1)
           /\ CallsOf("dump") = << >>
           /\ meta = start.meta
    /\ CallsOf("dump") # << >> =>
           /\ Len(CallsOf("save")) = total_pages
           /\ dir.entries = ExpectedSlides(total_pages)

C9_Witness ==
    /\ pc = "exited" /\ error = "PDFPageError"
    /\ page_num = MaxPages
    /\ dir.entries = ExpectedSlides(MaxPages - 1)
    /\ start.meta # {}

\* C10: the image buffers alive at any point all belong to the page being
\* processed, and none is alive when the next page is about to be rendered or
\* outside the loop body.
C10_OnePageInMemory ==
    /\ \A b \in Live : b.page = page_num
    /\ pc \notin {"index", "resize", "save", "del"} => Live = {}

C10_Witness ==
    /\ pc = "render" /\ page_num = MaxPages
    /\ Live = {}
    /\ Len(CallsOf("save")) = MaxPages - 1

====
